---- MODULE Spec2Model ----
(***************************************************************************)
(* Model of the transcription-normalisation core of trans_transcriber.py:  *)
(* filter_duplicates (lines 23-50) and format_diarized_transcription       *)
(* (lines 52-94).                                                          *)
(*                                                                         *)
(* Strings are sequences of one-character strings, so that str.strip,      *)
(* str.join and a split on a blank line are computed, not assumed.         *)
(* Timestamps are counted in quarter seconds (0.25 s ticks): the float     *)
(* literal 0.5 of line 38 is HalfSecond == 2 ticks.                        *)
(*                                                                         *)
(* Each for loop is one action per iteration, and pc is the position in    *)
(* the code.  Four specifications share the actions:                       *)
(*   Spec       format_diarized_transcription on utterances whose          *)
(*              timestamps and speaker may be None or missing, and on      *)
(*              word lists;                                                *)
(*   SpecDedup  filter_duplicates on chronological well-formed utterances; *)
(*   SpecCarry  filter_duplicates on well-formed utterances in any order,  *)
(*              with and without a speaker;                                *)
(*   SpecWords  the fallback path and the empty input.                     *)
(***************************************************************************)
EXTENDS Integers, Sequences, FiniteSets, TLC

\* ------------------------------------------------------------------ bounds
\* longest utterance sequence given to filter_duplicates called on its own
MaxUtterances == 3
\* largest timestamp, in quarter seconds
MaxTime == 2
\* longest utterance sequence given to format_diarized_transcription
MaxFormatted == 2
\* longest utterance sequence whose speaker attributes vary
MaxCarried == 2
\* longest word sequence of the fallback path
MaxWords == 3

\* ------------------------------------------------------- values of Python
\* None, as a speaker label or as an argument default
None == "<None>"
\* an attribute the object does not have (getattr falls back, x.attr raises)
Absent == "<absent>"
\* a timestamp attribute that is present but None
NoneTime == -1
\* a timestamp attribute the object does not have
AbsentTime == -2
\* the default of getattr(utterance, "speaker", "Unknown Speaker"), line 45
UnknownSpeaker == "Unknown Speaker"
\* 0.5 seconds (line 38), in quarter seconds
HalfSecond == 2

\* characters str.strip() removes from both ends
Whitespace == {" ", "\n", "\t"}

\* str.lstrip()
RECURSIVE LStrip(_)
LStrip(s) ==
    IF s = <<>> THEN s
    ELSE IF Head(s) \in Whitespace THEN LStrip(Tail(s)) ELSE s

\* str.rstrip()
RECURSIVE RStrip(_)
RStrip(s) ==
    IF s = <<>> THEN s
    ELSE IF s[Len(s)] \in Whitespace THEN RStrip(SubSeq(s, 1, Len(s) - 1)) ELSE s

\* str.strip(), lines 31 and 87
Strip(s) == RStrip(LStrip(s))

\* abs(), line 38
Abs(x) == IF x < 0 THEN 0 - x ELSE x

\* bool(x) of an argument that is None or a list, lines 60 and 84
Truthy(arg) == (~arg.isNone) /\ Len(arg.items) > 0

\* ------------------------------------------------------------------ state
VARIABLES
    utterances,             \* argument: [isNone, items], items a sequence of utterance objects
    words,                  \* argument: [isNone, items], items a sequence of word objects
    pc,                     \* position in the code
    ret,                    \* where filter_duplicates returns to
    i,                      \* index of the next element of the running for loop
    filtered,               \* filter_duplicates: filtered
    seen_texts,             \* seen_texts (line 28, and line 85 on the fallback path)
    kept,                   \* history: the input index each entry of filtered came from
    current_speaker,        \* format_diarized_transcription: current_speaker
    current_text,           \* current_text, a sequence of texts
    speaker_transcriptions, \* speaker_transcriptions, a sequence of rendered blocks
    result,                 \* the returned string
    raised                  \* the exception that ended the call, or "none"

vars == <<utterances, words, pc, ret, i, filtered, seen_texts, kept,
          current_speaker, current_text, speaker_transcriptions, result, raised>>

\* ------------------------------------------------------ filter_duplicates
\* line 36: text in seen_texts
\* a wrong membership test: nothing is ever recognised as seen
NeverSeen(text, seen) == FALSE

TextSeen(text, seen) == text \in seen

\* a wrong overlap test: true interval overlap (the new start before the last end)
OverlapsTrue(start_time, last_end) == start_time < last_end

\* line 38: abs(start_time - filtered[-1]["end_time"]) < 0.5
Overlaps(start_time, last_end) == Abs(start_time - last_end) < HalfSecond

\* a wrong entry: the raw transcript is stored instead of the stripped text
EntryRaw(utterance, text) ==
    [start_time |-> utterance.start,
     end_time   |-> utterance.end,
     speaker    |-> IF utterance.speaker = Absent THEN UnknownSpeaker
                    ELSE utterance.speaker,
     text       |-> utterance.transcript]

\* lines 42-47: the dict appended to filtered
Entry(utterance, text) ==
    [start_time |-> utterance.start,
     end_time   |-> utterance.end,
     speaker    |-> IF utterance.speaker = Absent THEN UnknownSpeaker
                    ELSE utterance.speaker,
     text       |-> text]

\* a wrong update: the seen-set is replaced by the last text only
RememberLastOnly(seen, text) == {text}

\* line 48: seen_texts.add(text)
Remember(seen, text) == seen \cup {text}

\* one iteration of the for loop, lines 30-48
FilterIter ==
    /\ pc = "filter"
    /\ i <= Len(utterances.items)
    /\ LET utterance == utterances.items[i]
           text == Strip(utterance.transcript)
           start_time == utterance.start
           end_time == utterance.end
       IN  IF start_time = AbsentTime \/ end_time = AbsentTime
           THEN \* utterance.start / utterance.end raise AttributeError
                /\ pc' = "raised"
                /\ raised' = "AttributeError"
                /\ UNCHANGED <<i, filtered, seen_texts, kept>>
           ELSE IF TextSeen(text, seen_texts)
           THEN \* line 37: continue
                /\ i' = i + 1
                /\ UNCHANGED <<pc, raised, filtered, seen_texts, kept>>
           ELSE IF filtered # <<>>
                   /\ (start_time = NoneTime
                       \/ filtered[Len(filtered)].end_time = NoneTime)
           THEN \* line 38: None - float, float - None raise TypeError
                /\ pc' = "raised"
                /\ raised' = "TypeError"
                /\ UNCHANGED <<i, filtered, seen_texts, kept>>
           ELSE IF filtered # <<>>
                   /\ Overlaps(start_time, filtered[Len(filtered)].end_time)
           THEN \* line 39: continue
                /\ i' = i + 1
                /\ UNCHANGED <<pc, raised, filtered, seen_texts, kept>>
           ELSE \* lines 42-48
                /\ filtered' = Append(filtered, Entry(utterance, text))
                /\ seen_texts' = Remember(seen_texts, text)
                /\ kept' = Append(kept, i)
                /\ i' = i + 1
                /\ UNCHANGED <<pc, raised>>
    /\ UNCHANGED <<utterances, words, ret, current_speaker, current_text,
                   speaker_transcriptions, result>>

\* line 50: return filtered, when the loop is exhausted
FilterReturn ==
    /\ pc = "filter"
    /\ i > Len(utterances.items)
    /\ pc' = ret
    /\ i' = 1
    /\ UNCHANGED <<utterances, words, ret, filtered, seen_texts, kept,
                   current_speaker, current_text, speaker_transcriptions,
                   result, raised>>

\* -------------------------------------------- format_diarized_transcription
\* str(x) of a speaker label inside the f-strings of lines 73 and 82
Str(speaker) ==
    CASE speaker = "S1" -> <<"S", "1">>
      [] speaker = "S2" -> <<"S", "2">>
      [] speaker = UnknownSpeaker ->
           <<"U", "n", "k", "n", "o", "w", "n", " ", "S", "p", "e", "a", "k", "e", "r">>
      [] speaker = None -> <<"N", "o", "n", "e">>

\* sep.join(parts), lines 73, 82 and 94
RECURSIVE JoinWith(_, _)
JoinWith(sep, parts) ==
    IF parts = <<>> THEN <<>>
    ELSE IF Len(parts) = 1 THEN parts[1]
    ELSE parts[1] \o sep \o JoinWith(sep, Tail(parts))

\* f"{current_speaker}: {' '.join(current_text)}", lines 73 and 82
Block(speaker, texts) == Str(speaker) \o <<":", " ">> \o JoinWith(<<" ">>, texts)

\* f"Unknown Speaker: {text}", line 90
WordBlock(text) == Str(UnknownSpeaker) \o <<":", " ">> \o text

\* the blank line between blocks, line 94
BlankLine == <<"\n", "\n">>

\* a wrong dispatch: len(x) > 0 instead of the truth test, which raises on None
DispatchLen(u, w) ==
    IF u.isNone THEN "raised"
    ELSE IF Len(u.items) > 0 THEN "filter"
    ELSE IF w.isNone THEN "raised"
    ELSE IF Len(w.items) > 0 THEN "words"
    ELSE "join"

\* lines 60 and 84: if utterances: ... elif words: ... (else nothing)
Dispatch(u, w) ==
    IF Truthy(u) THEN "filter"
    ELSE IF Truthy(w) THEN "words"
    ELSE "join"

\* lines 56-61 and 84-85: the entry of format_diarized_transcription
Call ==
    /\ pc = "start"
    /\ LET branch == Dispatch(utterances, words)
       IN  /\ pc' = branch
           /\ raised' = IF branch = "raised" THEN "TypeError" ELSE raised
    /\ ret' = "group"
    /\ i' = 1
    /\ filtered' = <<>>
    /\ seen_texts' = {}
    /\ kept' = <<>>
    /\ current_speaker' = None
    /\ current_text' = <<>>
    /\ speaker_transcriptions' = <<>>
    /\ UNCHANGED <<utterances, words, result>>

\* lines 71-74 and 80-83: the block of the current speaker is saved, if there is one
Flush(blocks, speaker, texts) ==
    IF speaker # None THEN Append(blocks, Block(speaker, texts)) ELSE blocks

\* one iteration of the loop over filtered_utterances, lines 62-77
GroupIter ==
    /\ pc = "group"
    /\ i <= Len(filtered)
    /\ LET speaker == filtered[i].speaker
           text == filtered[i].text
       IN  IF speaker = current_speaker
           THEN /\ current_text' = Append(current_text, text)
                /\ UNCHANGED <<current_speaker, speaker_transcriptions>>
           ELSE /\ speaker_transcriptions' =
                       Flush(speaker_transcriptions, current_speaker, current_text)
                /\ current_speaker' = speaker
                /\ current_text' = <<text>>
    /\ i' = i + 1
    /\ UNCHANGED <<utterances, words, pc, ret, filtered, seen_texts, kept,
                   result, raised>>

\* lines 79-83: the last speaker's block, after the loop
GroupFlush ==
    /\ pc = "group"
    /\ i > Len(filtered)
    /\ speaker_transcriptions' =
           Flush(speaker_transcriptions, current_speaker, current_text)
    /\ pc' = "join"
    /\ UNCHANGED <<utterances, words, ret, i, filtered, seen_texts, kept,
                   current_speaker, current_text, result, raised>>

\* a wrong append: the word joins the block before it, as on the primary path
AddWordMerged(blocks, text) ==
    IF blocks = <<>> THEN << WordBlock(text) >>
    ELSE [blocks EXCEPT ![Len(blocks)] = @ \o <<" ">> \o text]

\* lines 89-91: speaker_transcriptions.append(f"Unknown Speaker: {text}")
AddWordBlock(blocks, text) == Append(blocks, WordBlock(text))

\* one iteration of the loop over words, lines 86-92
WordIter ==
    /\ pc = "words"
    /\ i <= Len(words.items)
    /\ LET text == Strip(words.items[i].punctuated_word)
       IN  IF ~TextSeen(text, seen_texts)
           THEN /\ speaker_transcriptions' = AddWordBlock(speaker_transcriptions, text)
                /\ seen_texts' = Remember(seen_texts, text)
           ELSE UNCHANGED <<speaker_transcriptions, seen_texts>>
    /\ i' = i + 1
    /\ UNCHANGED <<utterances, words, pc, ret, filtered, kept, current_speaker,
                   current_text, result, raised>>

\* the loop over words is exhausted
WordsDone ==
    /\ pc = "words"
    /\ i > Len(words.items)
    /\ pc' = "join"
    /\ UNCHANGED <<utterances, words, ret, i, filtered, seen_texts, kept,
                   current_speaker, current_text, speaker_transcriptions,
                   result, raised>>

\* line 94: return "\n\n".join(speaker_transcriptions)
Join ==
    /\ pc = "join"
    /\ result' = JoinWith(BlankLine, speaker_transcriptions)
    /\ pc' = "done"
    /\ UNCHANGED <<utterances, words, ret, i, filtered, seen_texts, kept,
                   current_speaker, current_text, speaker_transcriptions, raised>>

\* ------------------------------------------------------------------ inputs
\* transcripts, as character sequences: "a", "a " and "b"
DedupTranscripts == { <<"a">>, <<"a", " ">>, <<"b">> }

\* transcripts of the formatter's inputs: " a", "b" and "a\n\nb"
FormatTranscripts == { <<" ", "a">>, <<"b">>, <<"a", "\n", "\n", "b">> }

\* punctuated words of the fallback path: "a", " a", "b." and ""
WordTexts == { <<"a">>, <<" ", "a">>, <<"b", ".">>, <<>> }

\* a timestamp that is a number
IsNumber(t) == t >= 0

\* utterance objects with both timestamps set, the end not before the start
TimedUtterances(transcripts, speakers) ==
    { u \in [transcript : transcripts, start : 0..MaxTime, end : 0..MaxTime,
             speaker : speakers] : u.start <= u.end }

\* utterance objects whose timestamps may be None or missing
AnyUtterances(transcripts, speakers) ==
    { u \in [transcript : transcripts,
             start : {AbsentTime, NoneTime} \cup 0..MaxTime,
             end : {AbsentTime, NoneTime} \cup 0..MaxTime,
             speaker : speakers] :
        (IsNumber(u.start) /\ IsNumber(u.end)) => u.start <= u.end }

\* all sequences over U of length at most n that are chronological by start
\* where the start is a number (the engine's order, spec section 3)
RECURSIVE ChronoSeqs(_, _)
ChronoSeqs(U, n) ==
    IF n = 0 THEN { <<>> }
    ELSE LET shorter == ChronoSeqs(U, n - 1)
             longest == { x \in shorter : Len(x) = n - 1 }
         IN  shorter \cup
             { Append(p[1], p[2]) :
                 p \in { q \in longest \X U :
                           \/ q[1] = <<>>
                           \/ ~IsNumber(q[1][Len(q[1])].start)
                           \/ ~IsNumber(q[2].start)
                           \/ q[1][Len(q[1])].start <= q[2].start } }

\* all sequences over a set of length at most n
SeqsUpTo(S, n) == UNION { [1..m -> S] : m \in 0..n }

\* an argument left at its default None, and an argument that is a list
NoArg == [isNone |-> TRUE, items |-> <<>>]
ListArg(items) == [isNone |-> FALSE, items |-> items]

InitLocals ==
    /\ i = 1
    /\ filtered = <<>>
    /\ seen_texts = {}
    /\ kept = <<>>
    /\ current_speaker = None
    /\ current_text = <<>>
    /\ speaker_transcriptions = <<>>
    /\ result = <<>>
    /\ raised = "none"

\* filter_duplicates called on its own
InitDedup ==
    /\ utterances \in
         { ListArg(us) :
             us \in ChronoSeqs(TimedUtterances(DedupTranscripts, {"S1"}),
                               MaxUtterances) }
    /\ words = NoArg
    /\ pc = "filter"
    /\ ret = "returned"
    /\ InitLocals

\* filter_duplicates called on its own, on utterances in any order (the code does
\* not sort them) with a speaker, with speaker None and with no speaker attribute
InitCarry ==
    /\ utterances \in
         { ListArg(us) :
             us \in SeqsUpTo(TimedUtterances({ <<"a", " ">>, <<"b">> },
                                             {Absent, None, "S1"}),
                             MaxCarried) }
    /\ words = NoArg
    /\ pc = "filter"
    /\ ret = "returned"
    /\ InitLocals

\* format_diarized_transcription(utterances=...), as main calls it (line 153)
InitPrimary ==
    /\ utterances \in
         { ListArg(us) :
             us \in ChronoSeqs(AnyUtterances(FormatTranscripts,
                                             {Absent, None, "S1", "S2"}),
                               MaxFormatted) }
    /\ words = NoArg
    /\ pc = "start"
    /\ ret = "group"
    /\ InitLocals

\* format_diarized_transcription with no usable utterances
InitFallback ==
    /\ utterances \in {NoArg, ListArg(<<>>)}
    /\ words \in {NoArg} \cup
         { ListArg(ws) : ws \in SeqsUpTo([punctuated_word : WordTexts], MaxWords) }
    /\ pc = "start"
    /\ ret = "group"
    /\ InitLocals

Init == InitPrimary \/ InitFallback

NextDedup == FilterIter \/ FilterReturn

NextFallback == Call \/ WordIter \/ WordsDone \/ Join

Next ==
    \/ Call
    \/ FilterIter
    \/ FilterReturn
    \/ GroupIter
    \/ GroupFlush
    \/ WordIter
    \/ WordsDone
    \/ Join

\* format_diarized_transcription on every input
Spec == Init /\ [][Next]_vars

\* filter_duplicates on well-formed chronological utterances
SpecDedup == InitDedup /\ [][NextDedup]_vars

\* filter_duplicates on utterances in any order, with every kind of speaker attribute
SpecCarry == InitCarry /\ [][NextDedup]_vars

\* the fallback path and the degenerate case of format_diarized_transcription
SpecWords == InitFallback /\ [][NextFallback]_vars

\* ------------------------------------------------------------------ claims
Items == utterances.items

\* the trimmed text of the k-th input utterance
TrimmedAt(k) == Strip(Items[k].transcript)

\* the input positions whose utterance is in filtered
KeptSet == { kept[k] : k \in 1..Len(kept) }

\* the input position of the entry that was last in filtered when position p was read
LastKeptBefore(p) ==
    CHOOSE k \in KeptSet : k < p /\ \A l \in KeptSet : l < p => l <= k

\* C1 as stated: of the utterances with the same trimmed text no occurrence after
\* the first is ever in filtered, also when the first one was rejected by the
\* 0.5-second rule.
C1_OnlyFirstOccurrenceSurvives ==
    \A q \in KeptSet : \A p \in 1..(q - 1) : TrimmedAt(p) # TrimmedAt(q)

\* C1 as amended: of the utterances with the same trimmed text at most one is in
\* filtered, and every occurrence before the surviving one was rejected by the
\* 0.5-second rule (it started less than 0.5 s from the end of the entry kept last
\* before it); so the first occurrence survives unless that rule rejected it.
C1_AtMostOneOccurrenceSurvives ==
    /\ \A p, q \in KeptSet : p # q => TrimmedAt(p) # TrimmedAt(q)
    /\ \A q \in KeptSet : \A p \in 1..(q - 1) :
          TrimmedAt(p) = TrimmedAt(q) =>
              /\ p \notin KeptSet
              /\ \E k \in KeptSet : k < p
              /\ Abs(Items[p].start - Items[LastKeptBefore(p)].end) < HalfSecond

\* C1's case: the call has returned, and a later occurrence of a text survived
\* whose first occurrence was rejected
C1_Witness ==
    /\ pc = "returned"
    /\ \E q \in KeptSet : \E p \in 1..(q - 1) : TrimmedAt(p) = TrimmedAt(q)

\* C2, one step: a candidate that starts less than 0.5 s from the end of the entry
\* kept last is not added, whatever its text
C2_Step ==
    ( /\ pc = "filter"
      /\ i <= Len(Items)
      /\ filtered # <<>>
      /\ Abs(Items[i].start - filtered[Len(filtered)].end_time) < HalfSecond )
    => /\ filtered' = filtered
       /\ seen_texts' = seen_texts
       /\ i' = i + 1

\* C2, the result: no entry of filtered starts less than 0.5 s from the end of the
\* entry before it
C2_Gaps ==
    \A k \in 2..Len(filtered) :
        Abs(filtered[k].start_time - filtered[k - 1].end_time) >= HalfSecond

\* C2: at every step of filter_duplicates a candidate within 0.5 s (absolute
\* difference) of the last kept end_time is rejected whatever its text, and so no
\* kept entry starts within 0.5 s of the end_time of the entry kept before it.
C2_OverlapSuppression == [][C2_Step /\ C2_Gaps']_vars

\* C2's case: the call has returned, and an utterance whose text was never kept
\* (so the seen-set did not reject it) is missing from filtered
C2_Witness ==
    /\ pc = "returned"
    /\ Len(filtered) >= 1
    /\ \E k \in 1..Len(Items) : k \notin KeptSet /\ TrimmedAt(k) \notin seen_texts

\* whether an entry of filtered is the record of an input utterance
IsEntryOf(entry, utterance) ==
    /\ entry.start_time = utterance.start
    /\ entry.end_time = utterance.end
    /\ entry.text = Strip(utterance.transcript)
    /\ entry.speaker = IF utterance.speaker = Absent THEN UnknownSpeaker
                       ELSE utterance.speaker

\* whether the entries f are the records of a subsequence of the utterances us
RECURSIVE Embeds(_, _)
Embeds(f, us) ==
    IF f = <<>> THEN TRUE
    ELSE IF us = <<>> THEN FALSE
    ELSE IF IsEntryOf(Head(f), Head(us)) THEN Embeds(Tail(f), Tail(us))
    ELSE Embeds(f, Tail(us))

\* C3: filtered is a subsequence of the input: its entries carry the start, end,
\* speaker and trimmed text of distinct input utterances, in the input's order.
C3_OrderPreserved ==
    /\ Len(filtered) <= Len(Items)
    /\ IF pc = "filter" THEN Embeds(filtered, SubSeq(Items, 1, i - 1))
       ELSE Embeds(filtered, Items)

\* C3's case: the call has returned two entries, the first of an utterance with no
\* speaker attribute and an untrimmed transcript, the second with a speaker
C3_Witness ==
    /\ pc = "returned"
    /\ Len(filtered) = 2
    /\ Items[kept[1]].speaker = Absent
    /\ Items[kept[1]].transcript # filtered[1].text
    /\ filtered[2].speaker = "S1"

\* C4: after every iteration seen_texts is exactly the set of the kept texts, and
\* no two kept entries have the same text.
C4_SeenIsKeptTexts ==
    /\ seen_texts = { filtered[k].text : k \in 1..Len(filtered) }
    /\ \A k, l \in 1..Len(filtered) : k # l => filtered[k].text # filtered[l].text

\* C4's case: two entries are kept and a repeated text was rejected
C4_Witness ==
    /\ pc = "returned"
    /\ Len(filtered) >= 2
    /\ \E k \in 1..Len(Items) : k \notin KeptSet /\ TrimmedAt(k) \in seen_texts

\* the k-th smallest member of a set of numbers
NthOf(S, n) == CHOOSE k \in S : Cardinality({ x \in S : x <= k }) = n

\* the positions of filtered where a maximal run of one speaker starts
RunStarts ==
    { k \in 1..Len(filtered) : k = 1 \/ filtered[k].speaker # filtered[k - 1].speaker }

\* the texts of filtered from position a to position b
TextsOf(a, b) == [k \in 1..(b - a + 1) |-> filtered[a + k - 1].text]

\* the rendering of the entries a..b of filtered as one block of a's speaker
Rendered(a, b) ==
    Str(filtered[a].speaker) \o <<":", " ">> \o JoinWith(<<" ">>, TextsOf(a, b))

\* the blocks of a cut of filtered into consecutive pieces that start at `starts`
BlocksOf(starts) ==
    [n \in 1..Cardinality(starts) |->
        Rendered(NthOf(starts, n),
                 IF n = Cardinality(starts) THEN Len(filtered)
                 ELSE NthOf(starts, n + 1) - 1)]

\* C5: on the primary path the rendered blocks are exactly the maximal runs of
\* consecutive same-speaker entries of filtered, in order, each rendered as its
\* speaker, ": " and its texts joined by spaces.
C5_BlocksAreMaximalRuns ==
    (pc = "done" /\ Truthy(utterances)) => speaker_transcriptions = BlocksOf(RunStarts)

\* the word positions whose trimmed text did not occur before
FirstOccurrences ==
    { k \in 1..Len(words.items) :
        \A p \in 1..(k - 1) :
            Strip(words.items[p].punctuated_word) # Strip(words.items[k].punctuated_word) }

\* "Unknown Speaker: "
UnknownSpeakerPrefix ==
    <<"U", "n", "k", "n", "o", "w", "n", " ", "S", "p", "e", "a", "k", "e", "r", ":", " ">>

\* C6: on the fallback path there is exactly one block "Unknown Speaker: {text}"
\* per distinct trimmed word text, in the order of first occurrence; words are
\* never merged into one block.
C6_OneBlockPerDistinctWord ==
    (pc = "done" /\ ~Truthy(utterances) /\ Truthy(words)) =>
        /\ Len(speaker_transcriptions) = Cardinality(FirstOccurrences)
        /\ \A n \in 1..Cardinality(FirstOccurrences) :
              speaker_transcriptions[n] =
                  UnknownSpeakerPrefix
                      \o Strip(words.items[NthOf(FirstOccurrences, n)].punctuated_word)
        /\ result = JoinWith(BlankLine, speaker_transcriptions)

\* C6's case: three words, the second repeating the first after trimming, gave two
\* blocks
C6_Witness ==
    /\ pc = "done"
    /\ Len(words.items) = 3
    /\ words.items[1] # words.items[2]
    /\ Strip(words.items[1].punctuated_word) = Strip(words.items[2].punctuated_word)
    /\ Len(speaker_transcriptions) = 2

\* whether some utterance of the input has no numeric start or end
Malformed ==
    \E k \in 1..Len(Items) : ~IsNumber(Items[k].start) \/ ~IsNumber(Items[k].end)

\* C7: when some utterance lacks a start or an end timestamp, the call fails with
\* MalformedInputError and returns no result.
C7_MalformedFailsFast ==
    Malformed =>
        /\ pc # "done"
        /\ pc = "raised" => raised = "MalformedInputError"

\* whether a string holds a blank line (two newlines in a row)
HasBlankLine(s) == \E k \in 1..(Len(s) - 1) : s[k] = "\n" /\ s[k + 1] = "\n"

\* s.split("\n\n")
RECURSIVE SplitBlank(_)
SplitBlank(s) ==
    IF ~HasBlankLine(s) THEN << s >>
    ELSE LET k == CHOOSE j \in 1..(Len(s) - 1) :
                    /\ s[j] = "\n" /\ s[j + 1] = "\n"
                    /\ \A l \in 1..(j - 1) : ~(s[l] = "\n" /\ s[l + 1] = "\n")
         IN  << SubSeq(s, 1, k - 1) >> \o SplitBlank(SubSeq(s, k + 2, Len(s)))

\* C8: the returned string has one blank line between adjacent blocks and none
\* inside a block: no block holds a blank line, and splitting the result on blank
\* lines gives back the blocks.
C8_BlankLineLayout ==
    (pc = "done" /\ speaker_transcriptions # <<>>) =>
        /\ \A n \in 1..Len(speaker_transcriptions) :
              ~HasBlankLine(speaker_transcriptions[n])
        /\ SplitBlank(result) = speaker_transcriptions

\* C9: with utterances absent or empty and words absent or empty the call raises
\* nothing and returns the empty string.
C9_EmptyInputEmptyString ==
    (~Truthy(utterances) /\ ~Truthy(words)) =>
        /\ raised = "none"
        /\ pc \in {"start", "join", "done"}
        /\ result = <<>>
        /\ speaker_transcriptions = <<>>

\* C9's case: the call has returned on absent utterances and an empty word list
C9_Witness ==
    /\ pc = "done"
    /\ utterances.isNone
    /\ ~words.isNone
    /\ words.items = <<>>

\* C10: on the primary path every entry of filtered is in exactly one rendered
\* block: the blocks are the rendering of some cut of filtered into consecutive
\* pieces, and a non-empty utterances input never gives an empty result.
C10_NoKeptUtteranceLost ==
    (pc = "done" /\ Truthy(utterances)) =>
        /\ \E cuts \in SUBSET (2..Len(filtered)) :
              /\ filtered # <<>>
              /\ speaker_transcriptions = BlocksOf({1} \cup cuts)
        /\ result # <<>>

====
